---------------------------- MODULE Spec2Model ----------------------------
(***************************************************************************)
(* Model of the consciousness-hooks enhancement pipeline.                  *)
(*                                                                         *)
(* Two programs are modelled, each with its own specification:             *)
(*   TsSpec  the VS Code extension's GitHookManager (analysis preview and  *)
(*           acceptChanges) of InteractiveHooksProvider.ts;                *)
(*   ShSpec  one run of a git hook built on interactive-hook-framework.sh  *)
(*           (interactive_hook_main and the modes it dispatches to).       *)
(*                                                                         *)
(* A string is modelled as the non-empty sequence of its newline-free      *)
(* segments ("a\nb" is <<"a", "b">>, "" is <<"">>), so that                *)
(* String.split('\n') and Array.join('\n') are computed, not assumed.      *)
(***************************************************************************)
EXTENDS Integers, Sequences, FiniteSets, TLC

VARIABLES
    \* ---- extension (GitHookManager) ----
    tsDisk,         \* content of the target file on disk
    tsPreRun,       \* content of the target file when the run started
    tsSnapshot,     \* originalContent captured by the last analysis
    tsSuggestions,  \* FileAnalysisResult.suggestions of the last analysis
    tsEnhanced,     \* FileAnalysisResult.enhancedContent (<<>> = undefined)
    tsBackups,      \* backup files: function Date.now() value -> content
    tsNow,          \* Date.now()
    tsConfig,       \* HookConfiguration fields read by acceptChanges
    tsLast,         \* what the last acceptChanges call did
    tsCalls,        \* number of acceptChanges calls so far
    tsEdits,        \* number of edits made to the file outside the extension
    \* ---- shell framework: one run of a hook ----
    shHook,         \* which hook runs: its apply_enhancement and analyze_file
    shEnvMode,      \* HOOK_MODE of the environment ("" = unset)
    shConf,         \* interactive-hook.conf: sequence of <<key, value>> lines
    shFiles,        \* the batch handed to interactive_hook_main
    shContent,      \* file -> content on disk
    shStart,        \* file -> content when the run started
    shBackups,      \* backup files: <<base name, timestamp>> -> content
    shNow,          \* the clock of date +%Y%m%d_%H%M%S
    shPc,           \* where the run is
    shCtx,          \* which get_user_choice call is waiting or being resumed
    shMode,         \* the local variable mode (a string: sequence of lines)
    shCaptured,     \* what $(get_user_choice ...) captured (sequence of lines)
    shIdx,          \* loop index into shFiles
    shProcessed,    \* interactive_mode: processed
    shApplied,      \* interactive_mode / auto_mode: applied
    shApplyCalls,   \* file -> number of apply_enhancement invocations
    shAnalyzed,     \* file -> number of analyze_file invocations
    shModePrompts,  \* number of "Choose mode:" prompts issued
    shAnswers,      \* file -> what the operator did at that file's prompts
    shLast,         \* what the last apply_enhancement call did
    shAnyInput,     \* the operator typed a line at some prompt of this run
    shTimeouts,     \* number of prompts that ended by timeout
    shSummary,      \* interactive_mode printed its summary
    shRc,           \* return code of interactive_hook_main (-1: not returned)
    \* ---- extension: ConfigurationManager ----
    cfVscode,       \* the VS Code settings of interactiveGitHooks (<<>> = not set)
    cfWorkspace,    \* .vscode/interactive-hooks.json (<<>> = key absent)
    cfEffective,    \* what getConfiguration returned last (<<>> = not called)
    \* ---- extension: one analyzeFiles call ----
    anConfig,       \* HookConfiguration fields read by analyzeFiles
    anFiles,        \* the batch: per path its size and what the file system allows
    anPc,           \* where the call is
    anIdx,          \* the loop variable i of analyzeFiles (one-based here)
    anHook,         \* index into enabledHooks of analyzeFile's loop
    anHookResults,  \* hookResults of the file being analysed
    anResults,      \* results of analyzeFiles so far
    anSpawned,      \* per path: number of hook processes spawned for it
    anRead,         \* per path: whether its content was read
    anCancelled,    \* the operator has cancelled the progress notification
    \* ---- extension: parseHookOutput ----
    psOutput,       \* the hook's standard output: lines of characters
    psContent,      \* originalContent
    psPc,           \* "call" before parseHookOutput runs, "returned" after
    psResult,       \* the suggestions parseHookOutput returned
    \* ---- shell framework: callers of save_user_preference on one file ----
    pfConf,         \* interactive-hook.conf: sequence of <<key, value>> lines
    pfTmp,          \* interactive-hook.conf.tmp: whether it exists, its lines
    pfProc,         \* per caller: its key, value, position and exit status
    pfSeen          \* per caller: the file when its call started and ended

tsVars == <<tsDisk, tsPreRun, tsSnapshot, tsSuggestions, tsEnhanced,
            tsBackups, tsNow, tsConfig, tsLast, tsCalls, tsEdits>>

shVars == <<shHook, shEnvMode, shConf, shFiles, shContent, shStart, shBackups, shNow,
            shPc, shCtx, shMode, shCaptured, shIdx, shProcessed, shApplied,
            shApplyCalls, shAnalyzed, shModePrompts, shAnswers, shLast, shAnyInput, shTimeouts,
            shSummary, shRc>>

cfVars == <<cfVscode, cfWorkspace, cfEffective>>

anVars == <<anConfig, anFiles, anPc, anIdx, anHook, anHookResults, anResults,
            anSpawned, anRead, anCancelled>>

psVars == <<psOutput, psContent, psPc, psResult>>

pfVars == <<pfConf, pfTmp, pfProc, pfSeen>>

vars == <<tsVars, shVars, cfVars, anVars, psVars, pfVars>>

-----------------------------------------------------------------------------
(* Bounds of the model *)

MaxLen == 2          \* lines of the target file at the start of a run
MaxLine == 1         \* largest start line a suggestion may carry (zero-based)
MaxChanges == 2      \* suggestions in one acceptChanges call or one analysis
MaxCalls == 2        \* acceptChanges calls per behaviour
MaxEdits == 1        \* edits of the file made outside the extension
MaxFiles == 2        \* files in the batch of one hook run

-----------------------------------------------------------------------------
(* Small helpers *)

Min(a, b) == IF a < b THEN a ELSE b
Max(a, b) == IF a > b THEN a ELSE b

\* sequences over S of length at most n
SeqUpTo(S, n) == UNION {[1..k -> S] : k \in 0..n}

-----------------------------------------------------------------------------
(* Strings and arrays of strings *)

\* String.prototype.split('\n'): one array element per line
SplitLines(content) == [i \in 1..Len(content) |-> <<content[i]>>]

\* Array.prototype.join('\n'): the elements' segments in order; an element that
\* itself holds newlines contributes several lines
RECURSIVE JoinLines(_)
JoinLines(arr) ==
    IF arr = <<>> THEN <<"">>
    ELSE IF Len(arr) = 1 THEN Head(arr)
    ELSE Head(arr) \o JoinLines(Tail(arr))

\* Array.prototype.splice(start, deleteCount, item) with one inserted item
Splice(arr, start, deleteCount, item) ==
    LET len == Len(arr)
        s   == IF start < 0 THEN Max(len + start, 0) ELSE Min(start, len)
        dc  == Min(Max(deleteCount, 0), len - s)
    IN  SubSeq(arr, 1, s) \o <<item>> \o SubSeq(arr, s + dc + 1, len)

\* Array.prototype.sort((a, b) => b.range.start.line - a.range.start.line):
\* descending start line, stable (equal start lines keep their input order)
RECURSIVE InsertByLineDesc(_, _)
InsertByLineDesc(sorted, c) ==
    IF sorted = <<>> THEN <<c>>
    ELSE IF Head(sorted).startLine >= c.startLine
         THEN <<Head(sorted)>> \o InsertByLineDesc(Tail(sorted), c)
         ELSE <<c>> \o sorted

RECURSIVE SortByLineDesc(_)
SortByLineDesc(list) ==
    IF list = <<>> THEN <<>>
    ELSE InsertByLineDesc(SortByLineDesc(SubSeq(list, 1, Len(list) - 1)),
                          list[Len(list)])

-----------------------------------------------------------------------------
(* GitHookManager: the pure part of acceptChanges and applyAllSuggestions *)

\* the input order kept: what acceptChanges would do without its sort
sortChanges_Unsorted(changes) == changes

\* const sortedChanges = changes.sort(...)
sortChanges(changes) == SortByLineDesc(changes)

\* the loop of acceptChanges: split, splice one change, join, next change
RECURSIVE SpliceAll(_, _)
SpliceAll(content, sorted) ==
    IF sorted = <<>> THEN content
    ELSE LET change  == Head(sorted)
             lines   == SplitLines(content)
             spliced == Splice(lines, change.startLine,
                               change.endLine - change.startLine + 1,
                               change.enhanced)
         IN  SpliceAll(JoinLines(spliced), Tail(sorted))

\* the content acceptChanges computes from the file's content and the changes
acceptChangesContent(content, changes) == SpliceAll(content, sortChanges(changes))

\* const sortedSuggestions = suggestions.sort(...)
sortSuggestions(suggestions) == SortByLineDesc(suggestions)

\* the loop of applyAllSuggestions: lines[lineIndex] = suggestion.enhanced
RECURSIVE AssignAll(_, _)
AssignAll(lines, sorted) ==
    IF sorted = <<>> THEN lines
    ELSE LET lineIndex == Head(sorted).startLine
         IN  AssignAll(IF lineIndex >= 0 /\ lineIndex < Len(lines)
                       THEN [lines EXCEPT ![lineIndex + 1] = Head(sorted).enhanced]
                       ELSE lines,
                       Tail(sorted))

\* the assignments made in ascending order: the first suggestion for a line
\* decides that line
applyAllSuggestions_FirstWins(content, suggestions) ==
    LET sorted == sortSuggestions(suggestions)
    IN  JoinLines(AssignAll(SplitLines(content),
                            [i \in 1..Len(sorted) |-> sorted[Len(sorted) + 1 - i]]))

applyAllSuggestions(content, suggestions) ==
    JoinLines(AssignAll(SplitLines(content), sortSuggestions(suggestions)))

-----------------------------------------------------------------------------
(* Inputs of the extension model *)

\* config.enabledHooks, in priority order
enabledHooks == <<"tone-validation", "code-quality">>

HookIndex(h) == CHOOSE i \in 1..Len(enabledHooks) : enabledHooks[i] = h

\* replacement texts a hook proposes; <<"T", "U">> is the two-line text "T\nU"
HookTexts(h) == IF h = "tone-validation" THEN {<<"T">>, <<"T", "U">>} ELSE {<<"Q">>}

FileLines == <<"A", "B", "C", "D", "F", "G">>

InitialContents == {[i \in 1..n |-> FileLines[i]] : n \in 1..MaxLen}

\* the text an analyzer reports as original for a line of the analysed content
OriginalAt(content, line) ==
    IF line >= 0 /\ line < Len(content) THEN <<content[line + 1]>> ELSE <<"">>

\* suggestions about the analysed content (parseHookOutput builds the range
\* from one line number: range.start.line = range.end.line)
ChangeUniverse(content) ==
    {[hookName |-> enabledHooks[i], startLine |-> l, endLine |-> l,
      original |-> OriginalAt(content, l), enhanced |-> e] :
        <<i, l, e>> \in {t \in (1..Len(enabledHooks)) \X (0..MaxLine) \X
                                (HookTexts(enabledHooks[1]) \cup HookTexts(enabledHooks[2])) :
                            t[3] \in HookTexts(enabledHooks[t[1]])}}

\* what analyzeFile can collect: in-range start lines, one-line texts (a hook
\* reports one suggestion per output line), hooks in enabledHooks order
AnalysisLists(content) ==
    {l \in SeqUpTo({c \in ChangeUniverse(content) :
                        c.startLine < Len(content) /\ Len(c.enhanced) = 1},
                   MaxChanges) :
        \A i \in 1..Len(l) - 1 : HookIndex(l[i].hookName) <= HookIndex(l[i + 1].hookName)}

NoCall == [changes |-> <<>>, before |-> <<>>, computed |-> <<>>, outcome |-> "none",
           wrote |-> FALSE, backedUp |-> FALSE, repeat |-> FALSE, appliedCount |-> 0]

-----------------------------------------------------------------------------
(* The extension's state machine *)

\* the configuration manager and the batch analysis are not part of the
\* specifications of acceptChanges and of the hook run
CfIdle == cfVscode = <<>> /\ cfWorkspace = <<>> /\ cfEffective = <<>>

AnIdle ==
    /\ anConfig = <<>> /\ anFiles = <<>> /\ anPc = "off" /\ anIdx = 0 /\ anHook = 0
    /\ anHookResults = <<>> /\ anResults = <<>> /\ anSpawned = <<>> /\ anRead = <<>>
    /\ anCancelled = FALSE

\* the parser and the preference file are not part of the other specifications
PsIdle == psOutput = <<>> /\ psContent = <<"">> /\ psPc = "off" /\ psResult = <<>>

PfIdle ==
    /\ pfConf = <<>> /\ pfTmp = [exists |-> FALSE, lines |-> <<>>]
    /\ pfProc = <<>> /\ pfSeen = <<>>

\* the hook run is not part of the extension's specifications
ShIdle ==
    /\ shHook = "none" /\ shEnvMode = "" /\ shConf = <<>> /\ shFiles = <<>>
    /\ shContent = <<>> /\ shStart = <<>> /\ shBackups = <<>> /\ shNow = 0
    /\ shPc = "off" /\ shCtx = "none" /\ shMode = <<"">> /\ shCaptured = <<>>
    /\ shIdx = 0 /\ shProcessed = 0 /\ shApplied = 0 /\ shApplyCalls = <<>>
    /\ shAnalyzed = <<>> /\ shModePrompts = 0
    /\ shAnswers = <<>> /\ shLast = NoCall /\ shAnyInput = FALSE /\ shTimeouts = 0
    /\ shSummary = FALSE /\ shRc = -1

TsInit ==
    /\ ShIdle /\ CfIdle /\ AnIdle /\ PsIdle /\ PfIdle
    /\ tsDisk \in InitialContents
    /\ tsPreRun = tsDisk
    /\ tsSnapshot = tsDisk
    /\ tsSuggestions = <<>>
    /\ tsEnhanced = <<>>
    /\ tsBackups = <<>>
    /\ tsNow = 0
    /\ tsConfig \in [backupOriginalFiles : BOOLEAN]
    /\ tsLast = NoCall
    /\ tsCalls = 0
    /\ tsEdits = 0

\* analyzeFile: the hooks' suggestions are collected, applyAllSuggestions
\* computes the preview (sorting the suggestions array in place)
analyzeFile ==
    \E sugs \in AnalysisLists(tsDisk) :
        /\ tsSnapshot' = tsDisk
        /\ tsSuggestions' = IF Len(sugs) > 0 THEN sortSuggestions(sugs) ELSE sugs
        /\ tsEnhanced' = IF Len(sugs) > 0 THEN applyAllSuggestions(tsDisk, sugs) ELSE <<>>
        /\ UNCHANGED <<tsDisk, tsPreRun, tsBackups, tsNow, tsConfig, tsLast, tsCalls, tsEdits>>
        /\ UNCHANGED <<shVars, cfVars, anVars, psVars, pfVars>>

\* acceptChanges(fileId, changes); copyOk: whether fs.copyFileSync succeeds;
\* elapsed: whether Date.now() has advanced since the previous call
acceptChanges ==
    \E changes \in SeqUpTo(ChangeUniverse(tsSnapshot), MaxChanges),
       copyOk \in BOOLEAN, elapsed \in BOOLEAN :
        LET content  == acceptChangesContent(tsDisk, changes)
            backup   == tsConfig.backupOriginalFiles
            failed   == backup /\ ~copyOk
            now      == IF elapsed THEN tsNow + 1 ELSE tsNow
        IN  /\ tsCalls < MaxCalls
            /\ tsCalls' = tsCalls + 1
            /\ tsNow' = now
            /\ tsBackups' = IF backup /\ copyOk THEN (now :> tsDisk) @@ tsBackups
                            ELSE tsBackups
            /\ tsDisk' = IF failed THEN tsDisk ELSE content
            /\ tsLast' = [changes |-> changes, before |-> tsDisk, computed |-> content,
                          outcome |-> IF failed THEN "error" ELSE "ok",
                          wrote |-> ~failed,
                          backedUp |-> backup /\ copyOk,
                          repeat |-> /\ tsLast.outcome = "ok"
                                     /\ tsLast.changes = changes
                                     /\ tsLast.computed = tsDisk,
                          appliedCount |-> IF failed THEN 0 ELSE Len(changes)]
            /\ UNCHANGED <<tsPreRun, tsSnapshot, tsSuggestions, tsEnhanced,
                           tsConfig, tsEdits>>
            /\ UNCHANGED <<shVars, cfVars, anVars, psVars, pfVars>>

\* the file is edited outside the extension between analysis and apply
ExternalEdit ==
    /\ tsEdits < MaxEdits
    /\ tsEdits' = tsEdits + 1
    /\ \E i \in 1..Len(tsDisk), drop \in BOOLEAN :
          tsDisk' = IF drop /\ Len(tsDisk) > 1
                    THEN SubSeq(tsDisk, 1, Len(tsDisk) - 1)
                    ELSE [tsDisk EXCEPT ![i] = "E"]
    /\ UNCHANGED <<tsPreRun, tsSnapshot, tsSuggestions, tsEnhanced, tsBackups, tsNow,
                   tsConfig, tsLast, tsCalls>>
    /\ UNCHANGED <<shVars, cfVars, anVars, psVars, pfVars>>

TsNext == acceptChanges \/ ExternalEdit

TsSpec == TsInit /\ [][TsNext]_vars

\* the analysis preview on its own: analyzeFile over a file that may be edited
PreviewNext == analyzeFile \/ ExternalEdit

PreviewSpec == TsInit /\ [][PreviewNext]_vars

\* one acceptChanges call on a file as analysed: the inputs of the pure part
\* are the initial content and the list of changes
firstAcceptChanges == tsCalls = 0 /\ acceptChanges

FirstApplySpec == TsInit /\ [][firstAcceptChanges]_vars

\* the operator accepts all suggestions of the analysis shown: acceptChanges
\* is called with result.suggestions, the array applyAllSuggestions sorted
acceptAllSuggestions ==
    /\ tsSuggestions # <<>>
    /\ acceptChanges
    /\ tsLast'.changes = tsSuggestions

\* the first analysis of the file and the first acceptChanges call, made with
\* all suggestions of that analysis: the inputs of the two computations are
\* the initial content and the list of suggestions
firstAnalyzeFile == tsCalls = 0 /\ tsSuggestions = <<>> /\ analyzeFile

firstAcceptAllSuggestions == tsCalls = 0 /\ acceptAllSuggestions

PreviewApplySpec == TsInit /\ [][firstAnalyzeFile \/ firstAcceptAllSuggestions]_vars

-----------------------------------------------------------------------------
(* Claims about the extension's apply (checked under TsSpec and FirstApplySpec) *)

InRange(c, content) == c.startLine >= 0 /\ c.startLine < Len(content)

DistinctInRange(changes, content) ==
    /\ \A i \in 1..Len(changes) : InRange(changes[i], content)
    /\ \A i, j \in 1..Len(changes) :
          i # j => changes[i].startLine # changes[j].startLine

\* the content with each referenced line replaced by its replacement text and
\* every other line kept, built line by line without any sorting or splicing
RECURSIVE ReplaceFrom(_, _, _)
ReplaceFrom(content, changes, i) ==
    IF i > Len(content) THEN <<>>
    ELSE LET hits == {k \in 1..Len(changes) : changes[k].startLine = i - 1}
         IN  (IF hits = {} THEN <<content[i]>>
              ELSE changes[CHOOSE k \in hits : TRUE].enhanced)
             \o ReplaceFrom(content, changes, i + 1)

ReplaceEach(content, changes) == ReplaceFrom(content, changes, 1)

Reorderings(list) ==
    {[i \in 1..Len(list) |-> list[p[i]]] :
        p \in {q \in [1..Len(list) -> 1..Len(list)] :
                  \A i, j \in 1..Len(list) : i # j => q[i] # q[j]}}

\* C3: for suggestions with pairwise distinct, in-range start lines, the content
\* acceptChanges computes is the original with exactly each referenced line
\* replaced by its replacement text, and acceptChanges and applyAllSuggestions
\* give that same content for every permutation of the input list.
C3_OrderInvariance ==
    (tsLast.outcome = "ok" /\ DistinctInRange(tsLast.changes, tsLast.before)) =>
        /\ tsLast.computed = ReplaceEach(tsLast.before, tsLast.changes)
        /\ \A perm \in Reorderings(tsLast.changes) :
              /\ acceptChangesContent(tsLast.before, perm) = tsLast.computed
              /\ applyAllSuggestions(tsLast.before, perm) = tsLast.computed

\* an unsorted input whose lower suggestion spans two lines has been applied
C3_Witness ==
    /\ tsLast.outcome = "ok"
    /\ DistinctInRange(tsLast.changes, tsLast.before)
    /\ Len(tsLast.changes) = 2
    /\ tsLast.changes[1].startLine < tsLast.changes[2].startLine
    /\ Len(tsLast.changes[1].enhanced) = 2
    /\ tsDisk = tsLast.computed

\* C4: calling acceptChanges a second time with the same suggestion set leaves
\* the file with the content the first call gave it.
C4_ApplyTwiceIsApplyOnce ==
    (tsLast.outcome = "ok" /\ tsLast.repeat) => tsLast.computed = tsLast.before

\* a suggestion is valid against a content when its line exists there and
\* still holds the text the analyzer saw
ValidAgainst(c, content) ==
    InRange(c, content) /\ <<content[c.startLine + 1]>> = c.original

ValidOnly(changes, content) ==
    SelectSeq(changes, LAMBDA c : ValidAgainst(c, content))

\* C5: when the file changed after the analysis so that some suggestion of the
\* batch is stale, acceptChanges writes the content the still-valid suggestions
\* give and reports only those as applied.
C5_StaleSuggestionsDropped ==
    (/\ tsLast.outcome = "ok"
     /\ \A i \in 1..Len(tsLast.changes) : ValidAgainst(tsLast.changes[i], tsSnapshot)
     /\ \E i \in 1..Len(tsLast.changes) : ~ValidAgainst(tsLast.changes[i], tsLast.before))
    => /\ tsLast.computed =
              acceptChangesContent(tsLast.before, ValidOnly(tsLast.changes, tsLast.before))
       /\ tsLast.appliedCount = Len(ValidOnly(tsLast.changes, tsLast.before))

\* C6: when two suggestions of different analyzers target the same start line,
\* the content holds only the suggestion of the analyzer earlier in
\* enabledHooks, and one suggestion is reported as applied.
C6_HigherPriorityWins ==
    (/\ tsLast.outcome = "ok"
     /\ Len(tsLast.changes) = 2
     /\ InRange(tsLast.changes[1], tsLast.before)
     /\ tsLast.changes[1].startLine = tsLast.changes[2].startLine
     /\ tsLast.changes[1].hookName # tsLast.changes[2].hookName)
    => LET first  == tsLast.changes[1]
           second == tsLast.changes[2]
           winner == IF HookIndex(first.hookName) < HookIndex(second.hookName)
                     THEN first ELSE second
       IN  /\ tsLast.computed = acceptChangesContent(tsLast.before, <<winner>>)
           /\ tsLast.appliedCount = 1

\* C7: when the content acceptChanges computes is identical to the file's
\* current content, the file is not written.
C7_NoWriteWhenUnchanged ==
    (/\ tsLast.outcome # "none"
     /\ Len(tsLast.changes) > 0
     /\ tsLast.computed = tsLast.before) => ~tsLast.wrote

-----------------------------------------------------------------------------
(* Shell framework: strings, the preference file, the hooks' file contents *)

\* ${var,,}: lower case, line by line
Lower(word) ==
    CASE word = "A" -> "a"
      [] word = "AUTO" -> "auto"
      [] OTHER -> word

LowerLines(str) == [i \in 1..Len(str) |-> Lower(str[i])]

\* case "$str" in w1|w2) and [[ "$str" =~ ^(w1|w2)$ ]]: the whole string is one
\* of the words
MatchesWord(str, words) == Len(str) = 1 /\ str[1] \in words

\* source "$config_file": the value the file leaves in a variable, a string
\* (<<"">>, the empty string, when the file does not set it)
RECURSIVE ConfValue(_, _)
ConfValue(conf, key) ==
    IF conf = <<>> THEN <<"">>
    ELSE IF conf[Len(conf)][1] = key THEN conf[Len(conf)][2]
    ELSE ConfValue(SubSeq(conf, 1, Len(conf) - 1), key)

\* save_user_preference: grep -v "^$key=" into the temporary file, append
\* key=value, move the temporary file over the configuration file
save_user_preference(conf, key, value) ==
    SelectSeq(conf, LAMBDA line : line[1] # key) \o <<<<key, value>>>>

FileNames == <<"src/util.py", "lib/util.py", "README.md", "docs/README.md">>

\* basename "$file"
Basename(file) ==
    CASE file = "src/util.py" -> "util.py"
      [] file = "lib/util.py" -> "util.py"
      [] OTHER -> "README.md"

\* A file's content as the hooks see it:
\*   lukhas    it mentions LUKHAS or consciousness (the tone hook's header test)
\*   newlines  number of newlines that end it
\*   secret    what the security patterns find: a password-like line (commented
\*             out by sed, still matching afterwards), a key-like line (replaced
\*             by sed), "todo" (reported by analyze_file, no sed rule), or none
\*   reviews   number of SECURITY REVIEW APPLIED headers
ShInitialContents(hook) ==
    IF hook = "tone"
    THEN {[lukhas |-> l, newlines |-> n, secret |-> "none", reviews |-> 0] :
             l \in BOOLEAN, n \in {1, 2}}
    ELSE {[lukhas |-> FALSE, newlines |-> 1, secret |-> x, reviews |-> 0] :
             x \in {"password", "key", "todo"}}

\* tone hook: content=$(cat "$file") drops the newlines at the end, enhance_*
\* adds the header unless the content mentions LUKHAS/consciousness, echo
\* writes the content with one newline
enhance_tone(content) == [content EXCEPT !.lukhas = TRUE, !.newlines = 1]

\* security hook: the sed rules on the temporary copy, and the review header
\* that goes in front when the copy differs from the file
enhance_security(content) ==
    IF content.secret \in {"password", "key"}
    THEN [content EXCEPT !.reviews = @ + 1,
                         !.secret = IF @ = "key" THEN "none" ELSE @]
    ELSE content

\* create_backup: cp "$file" "$backup_file" 2>/dev/null || true
create_backup(backups, file, content, now, cpOk) ==
    IF cpOk THEN (<<Basename(file), now>> :> content) @@ backups ELSE backups

ShNoCall == [file |-> "", before |-> <<>>, computed |-> <<>>, backedUp |-> FALSE,
             wrote |-> FALSE, reported |-> "none"]

\* HOOK_MODE values of the runs modelled
EnvModes == {"", "interactive", "auto", "AUTO", "preview", "skip", "ask", "bogus"}

\* interactive-hook.conf contents of the runs modelled
InitialConfs == {<<>>, <<<<"DEFAULT_MODE", <<"auto">>>>>>, <<<<"DEFAULT_MODE", <<"ask">>>>>>}

\* what the operator may type at a prompt ("" = just the return key)
Answers == {"a", "apply", "A", "v", "s", "q", "i", "y", ""}

\* the arguments of the four get_user_choice calls
CallSite(ctx) ==
    CASE ctx = "mode" ->
           [prompt |-> "Choose mode:", default |-> "i", timeout |-> 20,
            choices |-> "Choices: [i)nteractive/a)uto/p)review/s)kip] (default: i, timeout: 20s)"]
      [] ctx = "remember" ->
           [prompt |-> "Remember this choice for future commits?", default |-> "n",
            timeout |-> 10,
            choices |-> "Choices: [y/n] (default: n, timeout: 10s)"]
      [] ctx = "file" ->
           [prompt |-> "What would you like to do?", default |-> "s", timeout |-> 30,
            choices |-> "Choices: [a)pply/s)kip/v)iew/q)uit] (default: s, timeout: 30s)"]
      [] OTHER ->
           [prompt |-> "Apply changes?", default |-> "s", timeout |-> 15,
            choices |-> "Choices: [a)pply/s)kip] (default: s, timeout: 15s)"]

\* get_user_choice: everything it writes to standard output, which is what
\* $(get_user_choice ...) captures: the prompt, the choices line, on a timeout
\* the empty line and the timeout notice, and last the choice
get_user_choice(site, answered, answer) ==
    <<site.prompt, site.choices>>
    \o (IF answered
        THEN <<IF answer = "" THEN site.default ELSE answer>>
        ELSE <<"", "Timeout reached, using default", site.default>>)

\* the four branches of interactive_mode's case, with the last one applying
interactive_case_DefaultApplies(choice) ==
    LET c == LowerLines(choice)
    IN  IF MatchesWord(c, {"v", "view"}) THEN "view"
        ELSE IF MatchesWord(c, {"q", "quit"}) THEN "quit"
        ELSE "apply"

\* case "${choice,,}" in a|apply) ... v|view) ... q|quit) ... *) ... esac
interactive_case(choice) ==
    LET c == LowerLines(choice)
    IN  IF MatchesWord(c, {"a", "apply"}) THEN "apply"
        ELSE IF MatchesWord(c, {"v", "view"}) THEN "view"
        ELSE IF MatchesWord(c, {"q", "quit"}) THEN "quit"
        ELSE "skip"

\* case "${mode,,}" in i|interactive) ... a|auto) ... p|preview) ... s|skip) ...
mode_case(mode) ==
    LET m == LowerLines(mode)
    IN  IF MatchesWord(m, {"i", "interactive"}) THEN "interactive"
        ELSE IF MatchesWord(m, {"a", "auto"}) THEN "auto"
        ELSE IF MatchesWord(m, {"p", "preview"}) THEN "preview"
        ELSE IF MatchesWord(m, {"s", "skip"}) THEN "skip"
        ELSE "unknown"

-----------------------------------------------------------------------------
(* Shell framework: one run of interactive_hook_main *)

\* the extension is not part of the hook run's specifications
TsIdle ==
    /\ tsDisk = <<"">> /\ tsPreRun = <<"">> /\ tsSnapshot = <<"">>
    /\ tsSuggestions = <<>> /\ tsEnhanced = <<>> /\ tsBackups = <<>> /\ tsNow = 0
    /\ tsConfig = [backupOriginalFiles |-> TRUE] /\ tsLast = NoCall
    /\ tsCalls = 0 /\ tsEdits = 0

ShInit ==
    /\ TsIdle /\ CfIdle /\ AnIdle /\ PsIdle /\ PfIdle
    /\ shHook \in {"tone", "security"}
    /\ shEnvMode \in EnvModes
    /\ shConf \in InitialConfs
    /\ \E n \in 0..MaxFiles : shFiles = [i \in 1..n |-> FileNames[i]]
    /\ shContent \in [{shFiles[i] : i \in 1..Len(shFiles)} -> ShInitialContents(shHook)]
    /\ shStart = shContent
    /\ shBackups = <<>>
    /\ shNow = 0
    /\ shPc = "hook"
    /\ shCtx = "none"
    /\ shMode = <<"">>
    /\ shCaptured = <<>>
    /\ shIdx = 0
    /\ shProcessed = 0
    /\ shApplied = 0
    /\ shApplyCalls = [f \in DOMAIN shContent |-> 0]
    /\ shAnalyzed = [f \in DOMAIN shContent |-> 0]
    /\ shModePrompts = 0
    /\ shAnswers = [f \in DOMAIN shContent |-> <<>>]
    /\ shLast = ShNoCall
    /\ shAnyInput = FALSE
    /\ shTimeouts = 0
    /\ shSummary = FALSE
    /\ shRc = -1

\* the hook's apply_enhancement "$file"; cpOk: whether the cp of create_backup
\* succeeds; elapsed: whether the clock's second has changed since the last call;
\* readOk: whether the file can be read (cat "$file" in the tone hook, cp "$file"
\* "$temp_file" in the security hook). When it cannot, the cp of create_backup
\* fails too, the command fails and set -e ends the script before any write.
apply_enhancement(file, cpOk, elapsed, readOk) ==
    LET now      == IF elapsed THEN shNow + 1 ELSE shNow
        before   == shContent[file]
        computed == IF ~readOk THEN before
                    ELSE IF shHook = "tone" THEN enhance_tone(before)
                    ELSE enhance_security(before)
        wrote    == readOk /\ (IF shHook = "tone" THEN TRUE ELSE computed # before)
    IN  /\ shNow' = now
        /\ shBackups' = create_backup(shBackups, file, before, now, cpOk /\ readOk)
        /\ shContent' = IF wrote THEN [shContent EXCEPT ![file] = computed] ELSE shContent
        /\ shApplyCalls' = [shApplyCalls EXCEPT ![file] = @ + 1]
        /\ shLast' = [file |-> file, before |-> before, computed |-> computed,
                      backedUp |-> cpOk /\ readOk, wrote |-> wrote,
                      reported |-> IF readOk THEN "enhanced" ELSE "aborted"]

no_apply == UNCHANGED <<shNow, shBackups, shContent, shApplyCalls, shLast>>

\* the hook's main: analyze_file on every staged file, the files it accepts
\* form the batch (shFiles), then interactive_hook_main "${files[@]}"
main ==
    /\ shPc = "hook"
    /\ shAnalyzed' = [f \in DOMAIN shAnalyzed |-> shAnalyzed[f] + 1]
    /\ shPc' = "main"
    /\ no_apply
    /\ UNCHANGED <<shModePrompts, shHook, shEnvMode, shConf, shFiles, shStart, shCtx, shMode, shCaptured,
                   shIdx, shProcessed, shApplied, shAnswers, shAnyInput, shTimeouts,
                   shSummary, shRc>>
    /\ UNCHANGED <<tsVars, cfVars, anVars, psVars, pfVars>>

\* interactive_hook_main up to its first prompt or its case
interactive_hook_main ==
    /\ shPc = "main"
    /\ LET DEFAULT_MODE == ConfValue(shConf, "DEFAULT_MODE")
           mode == IF shEnvMode # "" THEN <<shEnvMode>>
                   ELSE IF DEFAULT_MODE # <<"">> THEN DEFAULT_MODE
                   ELSE <<"interactive">>
       IN  IF Len(shFiles) = 0
           THEN /\ shPc' = "done" /\ shRc' = 0
                /\ UNCHANGED <<shMode, shCtx, shModePrompts>>
           ELSE /\ shMode' = mode
                /\ shPc' = IF mode = <<"ask">> THEN "read" ELSE "case"
                /\ shCtx' = IF mode = <<"ask">> THEN "mode" ELSE shCtx
                /\ shRc' = shRc
                /\ shModePrompts' = IF mode = <<"ask">> THEN shModePrompts + 1
                                    ELSE shModePrompts
    /\ no_apply
    /\ UNCHANGED <<shAnalyzed, shHook, shEnvMode, shConf, shFiles, shStart, shCaptured, shIdx,
                   shProcessed, shApplied, shAnswers, shAnyInput, shTimeouts, shSummary>>
    /\ UNCHANGED <<tsVars, cfVars, anVars, psVars, pfVars>>

CurrentFile == shFiles[shIdx]

AtFilePrompt == shCtx \in {"file", "view"}

\* read -t "$timeout" that never times out: the prompt keeps waiting
get_user_choice_timeout_Blocks ==
    /\ shPc = "read"
    /\ UNCHANGED vars

\* get_user_choice when read -t times out (or finds standard input closed)
get_user_choice_timeout ==
    /\ shPc = "read"
    /\ shCaptured' = get_user_choice(CallSite(shCtx), FALSE, "")
    /\ shTimeouts' = shTimeouts + 1
    /\ shAnswers' = IF AtFilePrompt
                    THEN [shAnswers EXCEPT ![CurrentFile] = Append(@, "<timeout>")]
                    ELSE shAnswers
    /\ shPc' = "resume"
    /\ no_apply
    /\ UNCHANGED <<shModePrompts, shAnalyzed, shHook, shEnvMode, shConf, shFiles, shStart, shCtx, shMode, shIdx,
                   shProcessed, shApplied, shAnyInput, shSummary, shRc>>
    /\ UNCHANGED <<tsVars, cfVars, anVars, psVars, pfVars>>

\* get_user_choice when the operator enters a line before the timeout
get_user_choice_read ==
    \E answer \in Answers :
        /\ shPc = "read"
        /\ shCaptured' = get_user_choice(CallSite(shCtx), TRUE, answer)
        /\ shAnyInput' = TRUE
        /\ shAnswers' = IF AtFilePrompt
                        THEN [shAnswers EXCEPT ![CurrentFile] = Append(@, answer)]
                        ELSE shAnswers
        /\ shPc' = "resume"
        /\ no_apply
        /\ UNCHANGED <<shModePrompts, shAnalyzed, shHook, shEnvMode, shConf, shFiles, shStart, shCtx, shMode, shIdx,
                       shProcessed, shApplied, shTimeouts, shSummary, shRc>>
        /\ UNCHANGED <<tsVars, cfVars, anVars, psVars, pfVars>>

\* interactive_hook_main, ask: mode=$(get_user_choice "Choose mode:" ...)
ask_mode ==
    /\ shPc = "resume" /\ shCtx = "mode"
    /\ shMode' = shCaptured
    /\ shCtx' = "remember"
    /\ shPc' = "read"
    /\ no_apply
    /\ UNCHANGED <<shModePrompts, shAnalyzed, shHook, shEnvMode, shConf, shFiles, shStart, shCaptured, shIdx,
                   shProcessed, shApplied, shAnswers, shAnyInput, shTimeouts, shSummary,
                   shRc>>
    /\ UNCHANGED <<tsVars, cfVars, anVars, psVars, pfVars>>

\* interactive_hook_main, ask: remember=$(get_user_choice "Remember ...")
ask_remember ==
    /\ shPc = "resume" /\ shCtx = "remember"
    /\ shConf' = IF MatchesWord(LowerLines(shCaptured), {"y", "yes"})
                 THEN save_user_preference(shConf, "DEFAULT_MODE", shMode)
                 ELSE shConf
    /\ shCtx' = "none"
    /\ shPc' = "case"
    /\ no_apply
    /\ UNCHANGED <<shModePrompts, shAnalyzed, shHook, shEnvMode, shFiles, shStart, shMode, shCaptured, shIdx,
                   shProcessed, shApplied, shAnswers, shAnyInput, shTimeouts, shSummary,
                   shRc>>
    /\ UNCHANGED <<tsVars, cfVars, anVars, psVars, pfVars>>

\* interactive_hook_main: the case over the mode
run_mode ==
    /\ shPc = "case"
    /\ LET m == mode_case(shMode)
       IN  /\ shPc' = IF m \in {"interactive", "auto", "preview"} THEN m ELSE "done"
           /\ shRc' = IF m = "skip" THEN 0 ELSE IF m = "unknown" THEN 1 ELSE shRc
           /\ shIdx' = 1
    /\ no_apply
    /\ UNCHANGED <<shModePrompts, shAnalyzed, shHook, shEnvMode, shConf, shFiles, shStart, shCtx, shMode, shCaptured,
                   shProcessed, shApplied, shAnswers, shAnyInput, shTimeouts, shSummary>>
    /\ UNCHANGED <<tsVars, cfVars, anVars, psVars, pfVars>>

\* interactive_mode: the head of the loop over the files, up to the prompt
interactive_mode ==
    /\ shPc = "interactive"
    /\ IF shIdx <= Len(shFiles)
       THEN /\ shProcessed' = shProcessed + 1
            /\ shAnalyzed' = [shAnalyzed EXCEPT ![CurrentFile] = @ + 1]
            /\ shCtx' = "file"
            /\ shPc' = "read"
       ELSE /\ shPc' = "summary"
            /\ UNCHANGED <<shProcessed, shCtx, shAnalyzed>>
    /\ no_apply
    /\ UNCHANGED <<shModePrompts, shHook, shEnvMode, shConf, shFiles, shStart, shMode, shCaptured, shIdx,
                   shApplied, shAnswers, shAnyInput, shTimeouts, shSummary, shRc>>
    /\ UNCHANGED <<tsVars, cfVars, anVars, psVars, pfVars>>

\* interactive_mode: the case over the captured choice, and the follow-up of
\* the view branch
interactive_choice ==
    /\ shPc = "resume" /\ AtFilePrompt
    /\ \E cpOk \in BOOLEAN, elapsed \in BOOLEAN, readOk \in BOOLEAN :
          LET branch == IF shCtx = "file" THEN interactive_case(shCaptured)
                        ELSE IF MatchesWord(LowerLines(shCaptured), {"a", "apply"})
                             THEN "apply" ELSE "skip"
              died   == branch = "apply" /\ ~readOk
          IN  /\ IF branch = "apply"
                 THEN apply_enhancement(CurrentFile, cpOk, elapsed, readOk)
                 ELSE no_apply
              /\ shApplied' = IF branch = "apply" /\ readOk THEN shApplied + 1
                              ELSE shApplied
              /\ shCtx' = IF branch = "view" THEN "view" ELSE "none"
              /\ shPc' = CASE died -> "done"
                           [] branch = "view" -> "read"
                           [] branch = "quit" -> "summary"
                           [] OTHER -> "interactive"
              /\ shRc' = IF died THEN 1 ELSE shRc
              /\ shIdx' = IF died \/ branch \in {"view", "quit"} THEN shIdx
                          ELSE shIdx + 1
    /\ UNCHANGED <<shModePrompts, shAnalyzed, shHook, shEnvMode, shConf, shFiles, shStart, shMode, shCaptured,
                   shProcessed, shAnswers, shAnyInput, shTimeouts, shSummary>>
    /\ UNCHANGED <<tsVars, cfVars, anVars, psVars, pfVars>>

\* interactive_mode: the summary; interactive_hook_main then returns 0
interactive_summary ==
    /\ shPc = "summary"
    /\ shSummary' = TRUE
    /\ shRc' = 0
    /\ shPc' = "done"
    /\ no_apply
    /\ UNCHANGED <<shModePrompts, shAnalyzed, shHook, shEnvMode, shConf, shFiles, shStart, shCtx, shMode, shCaptured,
                   shIdx, shProcessed, shApplied, shAnswers, shAnyInput, shTimeouts>>
    /\ UNCHANGED <<tsVars, cfVars, anVars, psVars, pfVars>>

\* auto_mode: one turn of its loop, or its end and the return of 0
auto_mode ==
    /\ shPc = "auto"
    /\ IF shIdx <= Len(shFiles)
       THEN \E cpOk \in BOOLEAN, elapsed \in BOOLEAN, readOk \in BOOLEAN :
                /\ apply_enhancement(CurrentFile, cpOk, elapsed, readOk)
                /\ shApplied' = IF readOk THEN shApplied + 1 ELSE shApplied
                /\ shIdx' = IF readOk THEN shIdx + 1 ELSE shIdx
                /\ shPc' = IF readOk THEN shPc ELSE "done"
                /\ shRc' = IF readOk THEN shRc ELSE 1
       ELSE /\ shPc' = "done" /\ shRc' = 0
            /\ no_apply
            /\ UNCHANGED <<shApplied, shIdx>>
    /\ UNCHANGED <<shModePrompts, shAnalyzed, shHook, shEnvMode, shConf, shFiles, shStart, shCtx, shMode, shCaptured,
                   shProcessed, shAnswers, shAnyInput, shTimeouts, shSummary>>
    /\ UNCHANGED <<tsVars, cfVars, anVars, psVars, pfVars>>

\* a preview loop whose turn writes the enhancement, as auto_mode's does
preview_mode_Applies ==
    /\ shPc = "preview"
    /\ IF shIdx <= Len(shFiles)
       THEN /\ apply_enhancement(CurrentFile, TRUE, TRUE, TRUE)
            /\ shIdx' = shIdx + 1
            /\ UNCHANGED <<shPc, shRc>>
       ELSE /\ shPc' = "done" /\ shRc' = 0 /\ shIdx' = shIdx
            /\ no_apply
    /\ UNCHANGED <<shModePrompts, shAnalyzed, shHook, shEnvMode, shConf, shFiles, shStart, shCtx, shMode,
                   shCaptured, shProcessed, shApplied, shAnswers, shAnyInput, shTimeouts,
                   shSummary>>
    /\ UNCHANGED <<tsVars, cfVars, anVars, psVars, pfVars>>

\* preview_mode: one turn of its loop (preview_changes only prints), or its
\* end and the return of 0
preview_mode ==
    /\ shPc = "preview"
    /\ IF shIdx <= Len(shFiles)
       THEN shIdx' = shIdx + 1 /\ UNCHANGED <<shPc, shRc>>
       ELSE shPc' = "done" /\ shRc' = 0 /\ shIdx' = shIdx
    /\ no_apply
    /\ UNCHANGED <<shModePrompts, shAnalyzed, shHook, shEnvMode, shConf, shFiles, shStart, shCtx, shMode, shCaptured,
                   shProcessed, shApplied, shAnswers, shAnyInput, shTimeouts, shSummary>>
    /\ UNCHANGED <<tsVars, cfVars, anVars, psVars, pfVars>>

\* every step the shell takes by itself (all but the operator's input)
ShProgress ==
    \/ main \/ interactive_hook_main \/ get_user_choice_timeout \/ ask_mode
    \/ ask_remember
    \/ run_mode \/ interactive_mode \/ interactive_choice \/ interactive_summary
    \/ auto_mode \/ preview_mode

ShNext == ShProgress \/ get_user_choice_read

ShSpec == ShInit /\ [][ShNext]_vars

\* the shell runs its script to the end, and read -t returns when its timeout
\* expires; nothing makes the operator answer
FairShSpec == ShSpec /\ WF_vars(ShProgress)

-----------------------------------------------------------------------------
(* Claims about the hook run (checked under ShSpec and FairShSpec) *)

\* C1: whenever a file's content differs from its content at the start of the
\* run, a backup of that file holding the content it had at the start exists.
C1_NoMutationWithoutBackup ==
    \A f \in DOMAIN shContent :
        shContent[f] # shStart[f] =>
            \E b \in DOMAIN shBackups :
                b[1] = Basename(f) /\ shBackups[b] = shStart[f]

\* C2: when the backup of an apply failed (the apply itself being able to read
\* the file), the file was not written and the apply is reported as an error.
C2_BackupFailureIsFatal ==
    (shLast.file # "" /\ ~shLast.backedUp /\ shLast.reported # "aborted") =>
        (~shLast.wrote /\ shLast.reported = "error")

\* C8: every prompt stops waiting, a prompt that timed out ends its output with
\* its default, interactive_mode reaches its summary and interactive_hook_main
\* returns, whether or not the operator ever answers.
C8_TimeoutSafety ==
    /\ [](shPc = "read" => <>(shPc = "resume"))
    /\ [](shPc = "resume" /\ Len(shCaptured) = 5 =>
              shCaptured[5] = CallSite(shCtx).default)
    /\ [](shPc = "interactive" => <>shSummary)
    /\ <>(shRc # -1)

\* a run of interactive_mode over two files has ended with no input at all
C8_Witness ==
    /\ shPc = "done" /\ shSummary /\ shRc = 0
    /\ ~shAnyInput
    /\ Len(shFiles) >= 2 /\ shTimeouts = Len(shFiles)

\* the mode the run is configured with when it starts
ConfiguredMode ==
    IF shEnvMode # "" THEN <<shEnvMode>>
    ELSE IF ConfValue(shConf, "DEFAULT_MODE") # <<"">> THEN ConfValue(shConf, "DEFAULT_MODE")
    ELSE <<"interactive">>

InteractiveOrAsk ==
    mode_case(ConfiguredMode) = "interactive" \/ ConfiguredMode = <<"ask">>

\* C9: in a run in interactive or ask mode in which no prompt has received
\* input, apply_enhancement has not been invoked and every file has the
\* content it had at the start.
C9_SafeDefaultOnTimeout ==
    (InteractiveOrAsk /\ ~shAnyInput) =>
        \A f \in DOMAIN shContent :
            shApplyCalls[f] = 0 /\ shContent[f] = shStart[f]

\* an interactive run over two files has ended with every prompt timed out
C9_Witness ==
    /\ shPc = "done" /\ shSummary
    /\ mode_case(ConfiguredMode) = "interactive"
    /\ ~shAnyInput
    /\ Len(shFiles) >= 2
    /\ \A f \in DOMAIN shAnswers : shAnswers[f] = <<"<timeout>">>

\* C10: once interactive_mode has ended, a file whose prompt was answered a or
\* apply has been applied exactly once; a file whose prompt was answered v or
\* view got a second prompt and has been applied exactly when that was answered
\* a or apply; any other file has not been applied and is unmodified; and the
\* applied counter counts the applied files.
C10_InteractiveDecisionsTakeEffect ==
    (shPc = "done" /\ shSummary) =>
        /\ \A f \in DOMAIN shAnswers :
              LET a == shAnswers[f]
              IN  Len(a) >= 1 =>
                    IF Lower(a[1]) \in {"a", "apply"}
                    THEN shApplyCalls[f] = 1
                    ELSE IF Lower(a[1]) \in {"v", "view"}
                    THEN /\ Len(a) = 2
                         /\ shApplyCalls[f] = (IF Lower(a[2]) \in {"a", "apply"} THEN 1 ELSE 0)
                    ELSE shApplyCalls[f] = 0 /\ shContent[f] = shStart[f]
        /\ shApplied = Cardinality({f \in DOMAIN shApplyCalls : shApplyCalls[f] = 1})

-----------------------------------------------------------------------------
(* Claims about the modes of a hook run (checked under ShSpec) *)

ResolvesTo(m) == mode_case(ConfiguredMode) = m

NoPromptIssued == shPc # "read" /\ shTimeouts = 0 /\ ~shAnyInput

Last(str) == str[Len(str)]

\* C11: once the operator has answered q or quit at a file's prompt, no later
\* file of the batch is analysed again, prompted for or modified, and the
\* summary accounts for every file of the batch (the remaining ones as skipped).
C11_QuitEndsTheBatch ==
    \A i \in 1..Len(shFiles) :
        LET a == shAnswers[shFiles[i]]
        IN  (Len(a) >= 1 /\ Lower(a[1]) \in {"q", "quit"}) =>
              /\ \A j \in (i + 1)..Len(shFiles) :
                    /\ shAnswers[shFiles[j]] = <<>>
                    /\ shAnalyzed[shFiles[j]] <= 1
                    /\ shApplyCalls[shFiles[j]] = 0
                    /\ shContent[shFiles[j]] = shStart[shFiles[j]]
              /\ shSummary => shProcessed = Len(shFiles)

\* C12: in a run whose mode resolves to auto no prompt is issued,
\* apply_enhancement is invoked at most once per file and in batch order, and
\* when the run has ended it has been invoked once for every file.
C12_AutoAppliesEveryFileOnce ==
    ResolvesTo("auto") =>
        /\ NoPromptIssued
        /\ \A i \in 1..Len(shFiles) : shApplyCalls[shFiles[i]] <= 1
        /\ \A i, j \in 1..Len(shFiles) :
              (i < j /\ shApplyCalls[shFiles[j]] > 0) => shApplyCalls[shFiles[i]] > 0
        /\ shPc = "done" => \A i \in 1..Len(shFiles) : shApplyCalls[shFiles[i]] = 1

\* C13: in a run whose mode resolves to preview no step changes a file's
\* content, the backups or the preference file.
C13_PreviewNeverMutates ==
    [][ResolvesTo("preview") =>
          /\ shContent' = shContent
          /\ shBackups' = shBackups
          /\ shConf' = shConf]_vars

\* a preview run over two files has ended
C13_Witness ==
    /\ ResolvesTo("preview")
    /\ shPc = "done" /\ shRc = 0
    /\ Len(shFiles) >= 2 /\ shIdx = Len(shFiles) + 1

\* C14: in a run whose configured mode is skip, analyze_file is not invoked
\* for any file, no prompt is issued and no file is modified.
C14_SkipConsumesNoAnalysis ==
    ResolvesTo("skip") =>
        /\ NoPromptIssued
        /\ \A f \in DOMAIN shContent :
              shAnalyzed[f] = 0 /\ shApplyCalls[f] = 0 /\ shContent[f] = shStart[f]

\* C15: in a run whose mode is ask the mode prompt is issued once; after the
\* two prompts DEFAULT_MODE holds the chosen mode exactly when the remember
\* prompt was answered y or yes, and the run then proceeds under the chosen mode: it returns 0, with the summary
\* of interactive_mode when i was chosen and with every file applied once when
\* a was chosen.
C15_AskMode ==
    (shModePrompts > 0 /\ shPc \in {"case", "done"}) =>
        LET chosen == Last(shMode)
        IN  /\ shModePrompts = 1
            /\ shPc = "case" =>
                  (Lower(Last(shCaptured)) \in {"y", "yes"}
                      <=> ConfValue(shConf, "DEFAULT_MODE") = <<chosen>>)
            /\ (shPc = "done" /\ mode_case(<<chosen>>) # "unknown"
                    /\ shLast.reported # "aborted") =>
                  /\ shRc = 0
                  /\ mode_case(<<chosen>>) = "interactive" => shSummary
                  /\ mode_case(<<chosen>>) = "auto" =>
                        \A f \in DOMAIN shApplyCalls : shApplyCalls[f] = 1

\* C18 (hook run): when an apply_enhancement call of auto_mode or
\* interactive_mode has failed, the loop still reaches every file of the batch:
\* at the end of an auto run apply_enhancement has been invoked for each of them.
C18_FailureIsolationPerFile ==
    (ResolvesTo("auto") /\ shPc = "done" /\ shLast.reported = "aborted") =>
        \A i \in 1..Len(shFiles) : shApplyCalls[shFiles[i]] = 1

\* C23: a run whose configured mode is interactive, auto, preview, skip or ask
\* and that has ended without an apply_enhancement failure returned 0 (so a
\* non-zero return means the configured mode is none of these).
C23_HookNeverBlocksTheCommit ==
    (shPc = "done" /\ shRc # -1 /\ shLast.reported # "aborted"
        /\ (mode_case(ConfiguredMode) # "unknown" \/ ConfiguredMode = <<"ask">>)) =>
        shRc = 0

\* C28: what $(get_user_choice ...) hands to its caller is one line: the
\* operator's answer when a non-empty answer was read, the default argument
\* when the answer was empty or the read timed out.
C28_GetUserChoiceResult ==
    shPc = "resume" =>
        /\ Len(shCaptured) = 1
        /\ AtFilePrompt =>
              LET a == Last(shAnswers[CurrentFile])
              IN  shCaptured = <<IF a \in {"", "<timeout>"}
                                 THEN CallSite(shCtx).default ELSE a>>

\* C26: the backup an apply creates has a name that no earlier backup has, so
\* every backup, once made, stays in the backup directory with its content.
C26_BackupsAreAppendOnly ==
    [][/\ (shApplyCalls' # shApplyCalls /\ shLast'.backedUp) =>
              <<Basename(shLast'.file), shNow'>> \notin DOMAIN shBackups
       /\ \A name \in DOMAIN shBackups :
              name \in DOMAIN shBackups' /\ shBackups'[name] = shBackups[name]]_vars

-----------------------------------------------------------------------------
(* ConfigurationManager.getConfiguration *)

\* A setting that may be absent is <<>> (undefined) or <<value>>.

\* const defaultConfig: HookConfiguration = { ... }
defaultConfig ==
    [mode |-> "interactive", autoRunOnSave |-> FALSE, backupOriginalFiles |-> TRUE,
     maxFileSize |-> 1024 * 1024]

\* a || b of JavaScript: b when a is undefined or falsy (false, 0, ""); falsy
\* is the falsy value of the setting's type
JsOr(a, falsy, b) == IF a = <<>> \/ a[1] = falsy THEN b ELSE a[1]

\* vscodeConfig.get(key, defaultValue): the setting when it is set
Get(setting, defaultValue) == IF setting = <<>> THEN defaultValue ELSE setting[1]

\* getConfiguration's returned object
getConfiguration(vscodeConfig, workspaceConfig) ==
    [mode |->
        Get(vscodeConfig.mode, JsOr(workspaceConfig.mode, "", defaultConfig.mode)),
     autoRunOnSave |->
        Get(vscodeConfig.autoRunOnSave,
            JsOr(workspaceConfig.autoRunOnSave, FALSE, defaultConfig.autoRunOnSave)),
     backupOriginalFiles |->
        Get(vscodeConfig.backupOriginalFiles,
            JsOr(workspaceConfig.backupOriginalFiles, FALSE,
                 defaultConfig.backupOriginalFiles)),
     maxFileSize |->
        Get(vscodeConfig.maxFileSize,
            JsOr(workspaceConfig.maxFileSize, 0, defaultConfig.maxFileSize))]

\* the values a store may hold for each setting
SettingValues ==
    [mode : {<<>>, <<"auto">>, <<"skip">>},
     autoRunOnSave : {<<>>, <<FALSE>>, <<TRUE>>},
     backupOriginalFiles : {<<>>, <<FALSE>>, <<TRUE>>},
     maxFileSize : {<<>>, <<2048>>}]

CfInit ==
    /\ TsIdle /\ ShIdle /\ AnIdle /\ PsIdle /\ PfIdle
    /\ cfVscode \in SettingValues
    /\ cfWorkspace \in SettingValues
    /\ cfEffective = <<>>

\* a caller reads the configuration
readConfiguration ==
    /\ cfEffective = <<>>
    /\ cfEffective' = getConfiguration(cfVscode, cfWorkspace)
    /\ UNCHANGED <<cfVscode, cfWorkspace>>
    /\ UNCHANGED <<tsVars, shVars, anVars, psVars, pfVars>>

CfSpec == CfInit /\ [][readConfiguration]_vars

\* validateConfiguration(config): the messages for the fields it finds
\* invalid; `config.x && ...` skips a field that is 0 or the empty string.
\* No code of the extension calls it.
validateConfiguration(config, availableHooks) ==
    (IF config.mode # "" /\ config.mode \notin {"interactive", "auto", "preview", "skip"}
     THEN <<"Invalid mode. Must be one of: interactive, auto, preview, skip">> ELSE <<>>)
    \o (IF config.maxFileSize # 0
            /\ (config.maxFileSize < 1024 \/ config.maxFileSize > 10 * 1024 * 1024)
        THEN <<"Max file size must be between 1KB and 10MB">> ELSE <<>>)
    \o (IF config.timeoutSeconds # 0
            /\ (config.timeoutSeconds < 5 \/ config.timeoutSeconds > 300)
        THEN <<"Timeout must be between 5 and 300 seconds">> ELSE <<>>)
    \o (IF SelectSeq(enabledHooks, LAMBDA hook : hook \notin availableHooks) # <<>>
        THEN <<"Unknown hooks">> ELSE <<>>)

\* C16: every setting of the configuration getConfiguration returns is the
\* VS Code setting when that is set, otherwise the value persisted in
\* .vscode/interactive-hooks.json when the file has one (false included),
\* otherwise the built-in default.
C16_ConfigurationPrecedence ==
    cfEffective # <<>> =>
        \A k \in DOMAIN defaultConfig :
            cfEffective[k] = IF cfVscode[k] # <<>> THEN cfVscode[k][1]
                             ELSE IF cfWorkspace[k] # <<>> THEN cfWorkspace[k][1]
                             ELSE defaultConfig[k]

-----------------------------------------------------------------------------
(* GitHookManager.analyzeFiles: one call over a batch of paths *)

\* file sizes in bytes
FileSizes == {1024, 2048, 3072}

\* the configurations of the runs modelled: the limit is 2048 bytes and the
\* timeout 30 seconds, or one of the two is 0
RunConfigs ==
    {[mode |-> "interactive", maxFileSize |-> 2048, timeoutSeconds |-> 30],
     [mode |-> "interactive", maxFileSize |-> 0, timeoutSeconds |-> 30],
     [mode |-> "interactive", maxFileSize |-> 2048, timeoutSeconds |-> 0]}

\* how many lines of a hook's output parse as suggestions
ParsedCounts == {0, 1}

\* what the file system allows for a path: everything, no statSync (the file
\* is gone), or statSync but no readFileSync
Access == {"ok", "nostat", "noread"}

\* a guard that lets every file through
tooLarge_Never(size, maxFileSize) == FALSE

\* if (stats.size > config.maxFileSize)
tooLarge(size, maxFileSize) == size > maxFileSize

\* the result pushed for a file that is too large
skippedResult ==
    [status |-> "skipped", message |-> "File too large", hookResults |-> <<>>]

\* the result pushed by the catch of analyzeFiles
errorResult ==
    [status |-> "error", message |-> "Error analyzing file", hookResults |-> <<>>]

\* number of suggestions in a list of hook results
RECURSIVE CountSuggestions(_)
CountSuggestions(hookResults) ==
    IF hookResults = <<>> THEN 0
    ELSE Head(hookResults).suggestions + CountSuggestions(Tail(hookResults))

AnInit ==
    /\ TsIdle /\ ShIdle /\ CfIdle /\ PsIdle /\ PfIdle
    /\ anConfig \in RunConfigs
    /\ anFiles \in SeqUpTo([size : FileSizes, access : Access], MaxFiles)
    /\ anPc = "loop"
    /\ anIdx = 1
    /\ anHook = 0
    /\ anHookResults = <<>>
    /\ anResults = <<>>
    /\ anSpawned = [i \in 1..Len(anFiles) |-> 0]
    /\ anRead = [i \in 1..Len(anFiles) |-> FALSE]
    /\ anCancelled = FALSE

\* analyzeFiles: one turn of the for loop up to the call of analyzeFile, or
\* the return of the results
analyzeFiles ==
    /\ anPc = "loop"
    /\ IF anIdx > Len(anFiles)
       THEN /\ anPc' = "returned"
            /\ UNCHANGED <<anIdx, anHook, anResults, anRead>>
       ELSE LET file == anFiles[anIdx]
            IN  IF file.access = "nostat"
                THEN /\ anResults' = Append(anResults, errorResult)
                     /\ anIdx' = anIdx + 1
                     /\ UNCHANGED <<anPc, anHook, anRead>>
                ELSE IF tooLarge(file.size, anConfig.maxFileSize)
                THEN /\ anResults' = Append(anResults, skippedResult)
                     /\ anIdx' = anIdx + 1
                     /\ UNCHANGED <<anPc, anHook, anRead>>
                ELSE IF file.access = "noread"
                THEN /\ anResults' = Append(anResults, errorResult)
                     /\ anIdx' = anIdx + 1
                     /\ UNCHANGED <<anPc, anHook, anRead>>
                ELSE /\ anRead' = [anRead EXCEPT ![anIdx] = TRUE]
                     /\ anPc' = "file"
                     /\ anHook' = 1
                     /\ UNCHANGED <<anIdx, anResults>>
    /\ UNCHANGED <<anConfig, anFiles, anHookResults, anSpawned, anCancelled>>
    /\ UNCHANGED <<tsVars, shVars, cfVars, psVars, pfVars>>

\* analyzeFile calls runSingleHook for the next enabled hook: the hook script
\* is missing (throw, caught by analyzeFile) or the process is spawned
runSingleHook ==
    /\ anPc = "file" /\ anHook <= Len(enabledHooks)
    /\ \E scriptExists \in BOOLEAN :
          IF scriptExists
          THEN /\ anSpawned' = [anSpawned EXCEPT ![anIdx] = @ + 1]
               /\ anPc' = "wait"
               /\ UNCHANGED <<anHook, anHookResults>>
          ELSE /\ anHookResults' =
                      Append(anHookResults,
                             [hookName |-> enabledHooks[anHook], status |-> "error",
                              suggestions |-> 0, code |-> -1, parsed |-> 0])
               /\ anHook' = anHook + 1
               /\ UNCHANGED <<anSpawned, anPc>>
    /\ UNCHANGED <<anConfig, anFiles, anIdx, anResults, anRead, anCancelled>>
    /\ UNCHANGED <<tsVars, shVars, cfVars, psVars, pfVars>>

\* hookProcess.on('close'): the process has exited with a code, parsed of its
\* output lines being well-formed SUGGESTION lines for lines of the file
hookClose ==
    /\ anPc = "wait"
    /\ \E code \in {0, 1}, parsed \in ParsedCounts :
          anHookResults' =
              Append(anHookResults,
                     [hookName |-> enabledHooks[anHook],
                      status |-> IF code # 0 THEN "error" ELSE "success",
                      suggestions |-> IF code # 0 THEN 0 ELSE parsed,
                      code |-> code, parsed |-> parsed])
    /\ anHook' = anHook + 1
    /\ anPc' = "file"
    /\ UNCHANGED <<anConfig, anFiles, anIdx, anResults, anSpawned, anRead, anCancelled>>
    /\ UNCHANGED <<tsVars, shVars, cfVars, psVars, pfVars>>

\* analyzeFile returns its FileAnalysisResult, analyzeFiles pushes it
analyzeFileReturn ==
    /\ anPc = "file" /\ anHook > Len(enabledHooks)
    /\ anResults' =
          Append(anResults,
                 [status |-> IF CountSuggestions(anHookResults) > 0
                             THEN "needs_enhancement" ELSE "enhanced",
                  message |-> "", hookResults |-> anHookResults])
    /\ anHookResults' = <<>>
    /\ anHook' = 0
    /\ anIdx' = anIdx + 1
    /\ anPc' = "loop"
    /\ UNCHANGED <<anConfig, anFiles, anSpawned, anRead, anCancelled>>
    /\ UNCHANGED <<tsVars, shVars, cfVars, psVars, pfVars>>

\* the operator presses Cancel on the progress notification of
\* runInteractiveHooks: the token handed to the callback becomes cancelled;
\* the callback never reads it and passes it to nobody
cancel ==
    /\ anPc \in {"loop", "file", "wait"}
    /\ ~anCancelled
    /\ anCancelled' = TRUE
    /\ UNCHANGED <<anConfig, anFiles, anPc, anIdx, anHook, anHookResults, anResults,
                   anSpawned, anRead>>
    /\ UNCHANGED <<tsVars, shVars, cfVars, psVars, pfVars>>

\* the steps the extension takes by itself
AnProgress == analyzeFiles \/ runSingleHook \/ analyzeFileReturn

AnNext == AnProgress \/ hookClose \/ cancel

AnSpec == AnInit /\ [][AnNext]_vars

\* the event loop runs the extension's code; nothing makes a hook process exit
FairAnSpec == AnSpec /\ WF_vars(AnProgress)

-----------------------------------------------------------------------------
(* Claims about analyzeFiles (checked under AnSpec and FairAnSpec) *)

\* every hook result recorded so far, of finished files and of the current one
AllHookResults ==
    {anHookResults[k] : k \in 1..Len(anHookResults)}
    \cup UNION {{anResults[i].hookResults[k] : k \in 1..Len(anResults[i].hookResults)} :
                  i \in 1..Len(anResults)}

\* C17: a file whose size exceeds config.maxFileSize never has a hook process
\* spawned nor its content read, and its result is 'skipped' with the message
\* 'File too large'; a readable file of size at most maxFileSize is read and
\* gets the result of its analysis.
C17_SizeGuard ==
    \A i \in 1..Len(anFiles) :
        LET file == anFiles[i]
        IN  /\ (file.access # "nostat" /\ file.size > anConfig.maxFileSize) =>
                  /\ anSpawned[i] = 0
                  /\ ~anRead[i]
                  /\ i <= Len(anResults) =>
                        /\ anResults[i].status = "skipped"
                        /\ anResults[i].message = "File too large"
            /\ (file.access = "ok" /\ file.size <= anConfig.maxFileSize
                    /\ i <= Len(anResults)) =>
                  /\ anRead[i]
                  /\ anResults[i].status \in {"needs_enhancement", "enhanced"}

\* a batch has been analysed in which one file was over the limit and another,
\* of exactly the limit's size, had a hook process spawned for it
C17_Witness ==
    /\ anPc = "returned"
    /\ \E i, j \in 1..Len(anFiles) :
          /\ anFiles[i].access = "ok" /\ anFiles[i].size > anConfig.maxFileSize
          /\ anResults[i].status = "skipped"
          /\ anFiles[j].access = "ok" /\ anFiles[j].size = anConfig.maxFileSize
          /\ anSpawned[j] > 0

\* the extension's half of C18: analyzeFiles returns one result per path, in
\* input order, a file that cannot be stat'ed or read having the result 'error'
analyzeFilesIsolatesFailures ==
    anPc = "returned" =>
        /\ Len(anResults) = Len(anFiles)
        /\ \A i \in 1..Len(anFiles) :
              /\ anFiles[i].access = "nostat" => anResults[i].status = "error"
              /\ (anFiles[i].access = "noread"
                    /\ ~tooLarge(anFiles[i].size, anConfig.maxFileSize)) =>
                    anResults[i].status = "error"

\* C19: every wait for a hook process ends and analyzeFiles returns, also when
\* a hook process never exits.
C19_AnalyzerTimeout ==
    /\ [](anPc = "wait" => <>(anPc # "wait"))
    /\ <>(anPc = "returned")

\* C20: a hook process that exited with a non-zero code has the result 'error'
\* with no suggestions exactly when none of its output lines parsed as a
\* suggestion; when some did, it is 'success' and keeps them.
C20_AnalyzerExitCodes ==
    \A hr \in AllHookResults :
        hr.code > 0 =>
            /\ (hr.status = "error" /\ hr.suggestions = 0) <=> hr.parsed = 0
            /\ hr.parsed > 0 => (hr.status = "success" /\ hr.suggestions = hr.parsed)

\* C24: once the operator has cancelled, no hook process is spawned and no
\* file is read any more, a process in flight is not waited for any longer,
\* and the results returned account for every file of the batch, those not
\* yet processed at the cancellation as skipped.
C24_Cancellation ==
    /\ [][anCancelled => (anSpawned' = anSpawned /\ anRead' = anRead)]_vars
    /\ [](anCancelled /\ anPc = "returned" => Len(anResults) = Len(anFiles))

\* a configuration the run must refuse: a mode that is none of the four, a
\* maxFileSize outside 1KB..10MB or a timeoutSeconds outside 5..300
InvalidConfiguration(config) ==
    \/ config.mode \notin {"interactive", "auto", "preview", "skip"}
    \/ config.maxFileSize < 1024 \/ config.maxFileSize > 10 * 1024 * 1024
    \/ config.timeoutSeconds < 5 \/ config.timeoutSeconds > 300

\* C27: a run with an invalid configuration analyses no file: nothing is
\* read, no hook process is spawned and no result is produced.
C27_ConfigurationErrorsAreFatal ==
    InvalidConfiguration(anConfig) =>
        /\ anResults = <<>>
        /\ \A i \in 1..Len(anFiles) : anSpawned[i] = 0 /\ ~anRead[i]

-----------------------------------------------------------------------------
(* GitHookManager.parseHookOutput *)

\* A line of hook output is a sequence of characters; a word that holds no
\* colon, digit or sign is written as one character ("SUGGESTION", "tone").

Digits == <<"0", "1", "2", "3", "4", "5", "6", "7", "8", "9">>

IsDigit(ch) == \E d \in 1..10 : Digits[d] = ch

DigitValue(ch) == (CHOOSE d \in 1..10 : Digits[d] = ch) - 1

\* String.prototype.split(':'): the pieces between the colons, empty ones kept
RECURSIVE SplitColon(_)
SplitColon(str) ==
    IF \A i \in 1..Len(str) : str[i] # ":" THEN <<str>>
    ELSE LET i == CHOOSE k \in 1..Len(str) :
                      str[k] = ":" /\ \A j \in 1..(k - 1) : str[j] # ":"
         IN  <<SubSeq(str, 1, i - 1)>> \o SplitColon(SubSeq(str, i + 1, Len(str)))

\* String.prototype.startsWith('SUGGESTION:')
startsWithMarker(line) ==
    Len(line) >= 2 /\ line[1] = "SUGGESTION" /\ line[2] = ":"

\* the value of the digits at the front of str, after the digits before them
RECURSIVE LeadingDigits(_, _)
LeadingDigits(str, acc) ==
    IF str = <<>> \/ ~IsDigit(Head(str)) THEN acc
    ELSE LeadingDigits(Tail(str), 10 * acc + DigitValue(Head(str)))

\* parseInt(str, 10): an optional sign, then the longest run of digits; what
\* follows the digits is ignored; <<>> is NaN (no digit at that place)
parseInt(str) ==
    LET negative == str # <<>> /\ Head(str) = "-"
        signed   == str # <<>> /\ Head(str) \in {"-", "+"}
        rest     == IF signed THEN Tail(str) ELSE str
    IN  IF rest = <<>> \/ ~IsDigit(Head(rest)) THEN <<>>
        ELSE IF negative THEN <<0 - LeadingDigits(rest, 0)>>
        ELSE <<LeadingDigits(rest, 0)>>

\* the body of the for loop: the suggestions one SUGGESTION line adds
parseSuggestionLine(suggestionLine, lines, hookName) ==
    LET parts == SplitColon(suggestionLine)
    IN  IF Len(parts) >= 6
        THEN LET lineNumber == parseInt(parts[3])
             IN  IF lineNumber # <<>> /\ lineNumber[1] >= 0 /\ lineNumber[1] < Len(lines)
                 THEN <<[type |-> parts[2], description |-> parts[4],
                         original |-> parts[5], enhanced |-> parts[6],
                         startLine |-> lineNumber[1], endLine |-> lineNumber[1],
                         hookName |-> hookName]>>
                 ELSE <<>>
        ELSE <<>>

RECURSIVE parseSuggestionLines(_, _, _)
parseSuggestionLines(suggestionLines, lines, hookName) ==
    IF suggestionLines = <<>> THEN <<>>
    ELSE parseSuggestionLine(Head(suggestionLines), lines, hookName)
            \o parseSuggestionLines(Tail(suggestionLines), lines, hookName)

\* parseHookOutput(output, originalContent, hookName); output is given as its
\* lines (output.split('\n'))
parseHookOutput(output, originalContent, hookName) ==
    parseSuggestionLines(SelectSeq(output, startsWithMarker),
                         SplitLines(originalContent), hookName)

\* ---- the hook outputs modelled ----

\* the fields a hook writes, before they are joined with colons
LineNumberFields == {<<"0">>, <<"1">>, <<"7">>, <<"x">>, <<"1", "x">>, <<"-", "1">>}

\* "def f():" is the text of a Python function header, "T: U" a replacement
\* text that holds a colon
OriginalFields == {<<"A">>, <<"def f()", ":">>}

ReplacementFields == {<<"T">>, <<"T", ":", " U">>}

\* Array.prototype.join(':') of the fields of one protocol line
RECURSIVE JoinColon(_)
JoinColon(fields) ==
    IF fields = <<>> THEN <<>>
    ELSE IF Len(fields) = 1 THEN Head(fields)
    ELSE Head(fields) \o <<":">> \o JoinColon(Tail(fields))

\* the fields of the lines a hook prints: well-formed protocol lines, a line
\* that lacks its last field, and a line that is not a protocol line
OutputFields ==
    {<<<<"SUGGESTION">>, <<"tone">>, n, <<"d">>, o, r>> :
        <<n, o, r>> \in LineNumberFields \X OriginalFields \X ReplacementFields}
    \cup {<<<<"SUGGESTION">>, <<"tone">>, <<"0">>, <<"d">>, <<"A">>>>,
          <<<<"Analyzing file">>>>}

OutputLines == {JoinColon(f) : f \in OutputFields}

PsInit ==
    /\ TsIdle /\ ShIdle /\ CfIdle /\ AnIdle /\ PfIdle
    /\ psOutput \in SeqUpTo(OutputLines, MaxChanges)
    /\ psContent \in InitialContents
    /\ psPc = "call"
    /\ psResult = <<>>

\* runSingleHook's close handler calls parseHookOutput on the output collected
parseHookOutputCall ==
    /\ psPc = "call"
    /\ psResult' = parseHookOutput(psOutput, psContent, "tone-validation")
    /\ psPc' = "returned"
    /\ UNCHANGED <<psOutput, psContent>>
    /\ UNCHANGED <<tsVars, shVars, cfVars, anVars, pfVars>>

PsSpec == PsInit /\ [][parseHookOutputCall]_vars

-----------------------------------------------------------------------------
(* Claims about parseHookOutput (checked under PsSpec) *)

\* a field that is a decimal number: digits and nothing else
IsNumber(str) == str # <<>> /\ \A i \in 1..Len(str) : IsDigit(str[i])

\* the fields of a line as the hook wrote them (undoes JoinColon)
FieldsOf(line) == CHOOSE f \in OutputFields : JoinColon(f) = line

\* the lines of the output that the protocol admits for this content: the
\* marker, six fields, a numeric line number that is a line of the content
Admitted(output, content) ==
    SelectSeq(output,
              LAMBDA line :
                  LET f == FieldsOf(line)
                  IN  /\ f[1] = <<"SUGGESTION">>
                      /\ Len(f) >= 6
                      /\ IsNumber(f[3])
                      /\ LeadingDigits(f[3], 0) < Len(content))

\* C21: of the output's lines, those without the marker, with fewer than six
\* fields, or with a line number that is not a number or not a line of the
\* content yield nothing; every other line yields one suggestion, in output
\* order; every suggestion's start line is a line of the content.
C21_ParserRobustness ==
    psPc = "returned" =>
        LET admitted == Admitted(psOutput, psContent)
        IN  /\ Len(psResult) = Len(admitted)
            /\ \A i \in 1..Len(psResult) :
                  /\ psResult[i].startLine = LeadingDigits(FieldsOf(admitted[i])[3], 0)
                  /\ psResult[i].startLine >= 0
                  /\ psResult[i].startLine < Len(psContent)

\* C22: the suggestion parsed from a protocol line carries that line's
\* description, original text and replacement text.
C22_ProtocolFieldFidelity ==
    psPc = "returned" =>
        \A i \in 1..Len(psResult) :
            \E k \in 1..Len(psOutput) :
                LET f == FieldsOf(psOutput[k])
                IN  /\ Len(f) = 6
                    /\ psResult[i].description = f[4]
                    /\ psResult[i].original = f[5]
                    /\ psResult[i].enhanced = f[6]

-----------------------------------------------------------------------------
(* save_user_preference, command by command, for two callers on one file *)

\* Keys are names of shell variables (load_config sources the file), so the
\* pattern "^$key=" of grep holds no special character and selects the lines
\* of that key; values are single words.

Callers == {1, 2}

PreferenceKeys == {"DEFAULT_MODE", "BACKUP_DIR"}

PreferenceValues == {<<"auto">>, <<"skip">>}

\* interactive-hook.conf before the calls: absent or empty, one line, or the
\* lines of two keys
InitialPreferenceFiles ==
    {<<>>,
     <<<<"DEFAULT_MODE", <<"auto">>>>>>,
     <<<<"DEFAULT_MODE", <<"preview">>>>, <<"BACKUP_DIR", <<"/tmp/b">>>>>>}

NoTmp == [exists |-> FALSE, lines |-> <<>>]

PfInit ==
    /\ TsIdle /\ ShIdle /\ CfIdle /\ AnIdle /\ PsIdle
    /\ pfConf \in InitialPreferenceFiles
    /\ pfTmp = NoTmp
    /\ pfProc \in [Callers -> [key : PreferenceKeys, value : PreferenceValues,
                               pc : {"grep"}, rc : {-1}]]
    /\ pfSeen = [start |-> pfConf,
                 before |-> [c \in Callers |-> <<>>],
                 after |-> [c \in Callers |-> <<>>]]

\* the first command without its filter: every line is copied
save_grep_KeepsAll(c) ==
    /\ pfProc[c].pc = "grep"
    /\ pfTmp' = [exists |-> TRUE, lines |-> pfConf]
    /\ pfProc' = [pfProc EXCEPT ![c].pc = "echo"]
    /\ pfSeen' = [pfSeen EXCEPT !.before[c] = pfConf]
    /\ UNCHANGED pfConf
    /\ UNCHANGED <<tsVars, shVars, cfVars, anVars, psVars>>

\* grep -v "^$key=" "$config_file" 2>/dev/null > "${config_file}.tmp" || touch ...:
\* the temporary file is created or truncated and receives the lines of the
\* other keys (none when the configuration file is absent)
save_grep(c) ==
    /\ pfProc[c].pc = "grep"
    /\ pfTmp' = [exists |-> TRUE,
                 lines |-> SelectSeq(pfConf, LAMBDA line : line[1] # pfProc[c].key)]
    /\ pfProc' = [pfProc EXCEPT ![c].pc = "echo"]
    /\ pfSeen' = [pfSeen EXCEPT !.before[c] = pfConf]
    /\ UNCHANGED pfConf
    /\ UNCHANGED <<tsVars, shVars, cfVars, anVars, psVars>>

\* echo "$key=$value" >> "${config_file}.tmp": appends, creating the file
\* when it is not there
save_echo(c) ==
    /\ pfProc[c].pc = "echo"
    /\ pfTmp' = [exists |-> TRUE,
                 lines |-> Append(pfTmp.lines, <<pfProc[c].key, pfProc[c].value>>)]
    /\ pfProc' = [pfProc EXCEPT ![c].pc = "mv"]
    /\ UNCHANGED <<pfConf, pfSeen>>
    /\ UNCHANGED <<tsVars, shVars, cfVars, anVars, psVars>>

\* mv "${config_file}.tmp" "$config_file": fails when the temporary file is
\* gone, and set -e then ends the caller with a non-zero status
save_mv(c) ==
    /\ pfProc[c].pc = "mv"
    /\ pfConf' = IF pfTmp.exists THEN pfTmp.lines ELSE pfConf
    /\ pfTmp' = NoTmp
    /\ pfProc' = [pfProc EXCEPT ![c].pc = "done",
                                ![c].rc = IF pfTmp.exists THEN 0 ELSE 1]
    /\ pfSeen' = [pfSeen EXCEPT !.after[c] = pfConf']
    /\ UNCHANGED <<tsVars, shVars, cfVars, anVars, psVars>>

\* no other caller is between its grep and its mv
Alone(c) == \A d \in Callers \ {c} : pfProc[d].pc \in {"grep", "done"}

\* two runs of a hook on the same repository, each saving a preference
PfNext == \E c \in Callers : save_grep(c) \/ save_echo(c) \/ save_mv(c)

PfSpec == PfInit /\ [][PfNext]_vars

\* the two calls made one after the other
SerialPfNext ==
    \E c \in Callers : (Alone(c) /\ save_grep(c)) \/ save_echo(c) \/ save_mv(c)

SerialPfSpec == PfInit /\ [][SerialPfNext]_vars

-----------------------------------------------------------------------------
(* Claims about the preference file (checked under PfSpec and SerialPfSpec) *)

LinesOf(file, key) == SelectSeq(file, LAMBDA line : line[1] = key)

LinesNotOf(file, key) == SelectSeq(file, LAMBDA line : line[1] # key)

AllSaved == \A c \in Callers : pfProc[c].pc = "done"

\* the file after caller c's save followed by caller d's save
SavedInOrder(c, d) ==
    save_user_preference(
        save_user_preference(pfSeen.start, pfProc[c].key, pfProc[c].value),
        pfProc[d].key, pfProc[d].value)

\* C25: when both calls have ended, the file is what the two calls leave when
\* one runs after the other, in one of the two orders.
C25_SerializedPreferenceWrites ==
    AllSaved => pfConf \in {SavedInOrder(1, 2), SavedInOrder(2, 1)}

\* C30: when a call has ended, the file has one line for its key, key=value;
\* the lines of the other keys are those the file had when the call started;
\* and a call that started on the file left by a save of the same pair left
\* the file as it found it.
C30_KeyedPreferenceUpdate ==
    \A c \in Callers :
        pfProc[c].pc = "done" =>
            LET before == pfSeen.before[c]
                after  == pfSeen.after[c]
            IN  /\ LinesOf(after, pfProc[c].key) = <<<<pfProc[c].key, pfProc[c].value>>>>
                /\ LinesNotOf(after, pfProc[c].key) = LinesNotOf(before, pfProc[c].key)
                /\ \A d \in Callers \ {c} :
                      (/\ pfProc[d].pc = "done"
                       /\ pfProc[d].key = pfProc[c].key
                       /\ pfProc[d].value = pfProc[c].value
                       /\ pfSeen.after[d] = before) => after = before

\* the file held another key and an old value of the key; the key was saved
\* with a new value, then saved again with the same value
C30_Witness ==
    /\ AllSaved
    /\ pfProc[1].key = pfProc[2].key /\ pfProc[1].value = pfProc[2].value
    /\ pfSeen.after[1] = pfSeen.before[2]
    /\ pfSeen.after[2] = pfSeen.after[1]
    /\ LinesOf(pfSeen.start, pfProc[1].key) # <<>>
    /\ LinesOf(pfSeen.start, pfProc[1].key) # LinesOf(pfConf, pfProc[1].key)
    /\ LinesNotOf(pfSeen.start, pfProc[1].key) # <<>>

=============================================================================
